---- MODULE Spec2Model ----
(***************************************************************************)
(* The game-state reducer of the Guitar-Hero clone (src/src/state.ts),     *)
(* driven by the merged action stream of src/src/main.ts.                  *)
(*                                                                         *)
(* Numbers.  The program computes in IEEE doubles.  Two quantities are     *)
(* fractional and both are kept exactly here as scaled integers:           *)
(*   - y positions are multiples of NOTE_VELOCITY = 350 / (1800 / 16)      *)
(*     = 28/9, so every y is stored as y * YUnit (YUnit = 9);              *)
(*   - the multiplier moves in steps of 0.2, so it is stored as            *)
(*     multiplier * MultUnit (MultUnit = 5).                               *)
(* Every comparison the reducer makes on y (against 320, 350, 380 and      *)
(* 350 + 28/9) is at least 0.4 away from any reachable y, and no           *)
(* reachable score + notesHit * multiplier has fractional part 0.5, so     *)
(* the rounding error of the doubles never changes an outcome.             *)
(*                                                                         *)
(* Time.  Start times of chart rows, delays and timer periods are whole    *)
(* milliseconds.  A value of the random pitch or duration stream is named  *)
(* by the step of the generator that produced it (step k is the k-th      *)
(* application of RNG.hash to the seed 0).                                 *)
(***************************************************************************)
EXTENDS Integers, Sequences, FiniteSets, TLC

\* ------------------------------------------------------------------------
\* Program constants (types section of src/src/main.ts)
\* ------------------------------------------------------------------------
TICK_RATE_MS == 16
NOTE_FALL_TIME == 1800
HIT_WINDOW == 30
HIT_LINE_Y == 350
SCORE_INCREMENT == 1
SCORE_DECREMENT == 1
GAME_END_PADDING == 2000
\* consecutive hits per multiplier increment
COMBO_STEP == 10

\* scales of the two fractional quantities (see the header)
YUnit == 9
MultUnit == 5

\* COLORS = ["green", "red", "blue", "yellow"]: one lane per colour
COLORS == <<"green", "red", "blue", "yellow">>

Keys == {"KeyH", "KeyJ", "KeyK", "KeyL"}

KEY_BINDINGS ==
    [k \in Keys |-> CASE k = "KeyH" -> 0
                      [] k = "KeyJ" -> 1
                      [] k = "KeyK" -> 2
                      [] k = "KeyL" -> 3]

\* NOTE_VELOCITY = HIT_LINE_Y / (NOTE_FALL_TIME / TICK_RATE_MS), times YUnit
NOTE_VELOCITY == (HIT_LINE_Y * TICK_RATE_MS * YUnit) \div NOTE_FALL_TIME

\* the multiplier's increment 0.2, times MultUnit
MULTIPLIER_STEP == MultUnit \div 5

\* ------------------------------------------------------------------------
\* Bounds of the model
\* ------------------------------------------------------------------------
\* rows of the long single-lane chart
LongRows == 12
\* rows of the short two-lane chart
ShortRows == 3
\* rows of the one-note-at-a-time chart
ScoreRows == 13
\* rows of the charts with start times
TimedRows == 1

\* ------------------------------------------------------------------------
\* Helpers
\* ------------------------------------------------------------------------
Abs(x) == IF x < 0 THEN -x ELSE x

Max(a, b) == IF a >= b THEN a ELSE b

\* Math.round of the fraction num / den (den > 0): floor(x + 1/2)
MathRound(num, den) == (2 * num + den) \div (2 * den)

\* ------------------------------------------------------------------------
\* initialState
\* ------------------------------------------------------------------------
initialState ==
    [notes |-> <<>>,
     score |-> 0,
     missedNotes |-> 0,
     gameEnd |-> FALSE,
     multiplier |-> MultUnit,
     consecutiveHits |-> 0,
     shouldPlayRandomNote |-> FALSE]

\* ------------------------------------------------------------------------
\* PlayRandomNote
\* ------------------------------------------------------------------------
PlayRandomNoteApply(s) == s

\* ------------------------------------------------------------------------
\* Chart rows (src/src/observable.ts).  A field of a row is the sequence of
\* its characters.
\* ------------------------------------------------------------------------
\* the number that is not a number; it compares unequal to every lane
NaN == -1

Digits == <<"0", "1", "2", "3", "4", "5", "6", "7", "8", "9">>

IsDigit(c) == \E d \in 1..Len(Digits) : Digits[d] = c

DigitValue(c) == (CHOOSE d \in 1..Len(Digits) : Digits[d] = c) - 1

\* parseInt of an unsigned field without blanks: the value of its longest
\* prefix of digits, NaN when that prefix is empty
parseInt(text) ==
    LET digits == {n \in 0..Len(text) : \A i \in 1..n : IsDigit(text[i])}
        len == CHOOSE n \in digits : \A m \in digits : m <= n
        value[i \in 0..len] ==
            IF i = 0 THEN 0 ELSE 10 * value[i - 1] + DigitValue(text[i])
    IN  IF len = 0 THEN NaN ELSE value[len]

\* the % of doubles on the values parseInt gives
Remainder(a, b) == IF a = NaN THEN NaN ELSE a % b

\* csvLineToNote: the fields of a note the reducer reads (id, column, y,
\* hit); instrumentName, velocity, pitch, start and end are carried along
\* untouched, and only rows with user_played = true reach AddNotes.  No
\* field is validated.
csvLineToNote(pitch, index) ==
    [id |-> ToString(index),
     column |-> Remainder(parseInt(pitch), Len(COLORS)),
     y |-> 0,
     hit |-> FALSE]

\* calculateNoteDelay that forgets the fall time
calculateNoteDelay_AtStart(start) == start

\* calculateNoteDelay, of a start time in milliseconds
calculateNoteDelay(start) == start - NOTE_FALL_TIME

\* delay(d) of a note subscribed at time 0: a negative d emits at once
emitTime(start) == Max(0, calculateNoteDelay(start))

\* ------------------------------------------------------------------------
\* AddNotes
\* ------------------------------------------------------------------------
gameEndNote == [id |-> "gameEndNote", column |-> 0, y |-> 0, hit |-> FALSE]

\* AddNotes.apply that also puts the sentinel in the list
AddNotesApply_KeepsSentinel(note, s) ==
    IF note.id = "gameEndNote"
    THEN [s EXCEPT !.gameEnd = TRUE, !.notes = Append(s.notes, note)]
    ELSE [s EXCEPT !.notes = Append(s.notes, note)]

AddNotesApply(note, s) ==
    IF note.id = "gameEndNote"
    THEN [s EXCEPT !.gameEnd = TRUE]
    ELSE [s EXCEPT !.notes = Append(s.notes, note)]

\* ------------------------------------------------------------------------
\* KeyPress
\* ------------------------------------------------------------------------
\* isNoteHittable that forgets the hit flag
isNoteHittable_IgnoreHit(key, note) ==
    /\ note.column = KEY_BINDINGS[key]
    /\ Abs(note.y - HIT_LINE_Y * YUnit) <= HIT_WINDOW * YUnit

\* isNoteHittable that forgets the lane of the key
isNoteHittable_AnyLane(key, note) ==
    /\ Abs(note.y - HIT_LINE_Y * YUnit) <= HIT_WINDOW * YUnit
    /\ ~note.hit

isNoteHittable(key, note) ==
    /\ note.column = KEY_BINDINGS[key]
    /\ Abs(note.y - HIT_LINE_Y * YUnit) <= HIT_WINDOW * YUnit
    /\ ~note.hit

\* updateNote that pins a hit note on the hit line itself
updateNote_AtLine(key, note) ==
    IF isNoteHittable(key, note)
    THEN [note EXCEPT !.y = HIT_LINE_Y * YUnit, !.hit = TRUE]
    ELSE note

updateNote(key, note) ==
    IF isNoteHittable(key, note)
    THEN [note EXCEPT !.y = HIT_LINE_Y * YUnit + NOTE_VELOCITY, !.hit = TRUE]
    ELSE note

\* calculateScore without the Math.max(0, ...) floor
calculateScore_NoFloor(s, notesHit) ==
    IF notesHit = 0
    THEN MathRound(s.score - SCORE_DECREMENT, 1)
    ELSE MathRound(s.score * MultUnit
                     + notesHit * s.multiplier * SCORE_INCREMENT, MultUnit)

\* the score is an integer; the multiplier is in units of 1 / MultUnit
calculateScore(s, notesHit) ==
    IF notesHit = 0
    THEN MathRound(Max(0, s.score - SCORE_DECREMENT), 1)
    ELSE MathRound(s.score * MultUnit
                     + notesHit * s.multiplier * SCORE_INCREMENT, MultUnit)

\* calculateMultiplier that also raises the multiplier half-way
calculateMultiplier_EveryFifth(consecutiveHits, currentMultiplier) ==
    IF consecutiveHits % 5 = 0
    THEN currentMultiplier + MULTIPLIER_STEP
    ELSE currentMultiplier

\* calculateMultiplier that raises the multiplier on every hit from the
\* tenth on
calculateMultiplier_FromTenth(consecutiveHits, currentMultiplier) ==
    IF consecutiveHits >= COMBO_STEP
    THEN currentMultiplier + MULTIPLIER_STEP
    ELSE currentMultiplier

calculateMultiplier(consecutiveHits, currentMultiplier) ==
    IF consecutiveHits % COMBO_STEP = 0
    THEN currentMultiplier + MULTIPLIER_STEP
    ELSE currentMultiplier

\* KeyPress.apply that scores with the multiplier this press has earned
KeyPressApply_NewMultiplier(key, s) ==
    LET hittable(n) == isNoteHittable(key, n)
        notesHit == Len(SelectSeq(s.notes, hittable))
        updatedNotes ==
            [i \in 1..Len(s.notes) |-> updateNote(key, s.notes[i])]
        newConsecutiveHits == IF notesHit > 0 THEN s.consecutiveHits + 1 ELSE 0
        newMultiplier ==
            IF notesHit > 0
            THEN calculateMultiplier(newConsecutiveHits, s.multiplier)
            ELSE MultUnit
    IN  [s EXCEPT
            !.notes = updatedNotes,
            !.score = calculateScore([s EXCEPT !.multiplier = newMultiplier],
                                     notesHit),
            !.shouldPlayRandomNote = (notesHit = 0),
            !.consecutiveHits = newConsecutiveHits,
            !.multiplier = newMultiplier]

\* KeyPress.apply that keeps the combo on a press that hits nothing
KeyPressApply_KeepCombo(key, s) ==
    LET hittable(n) == isNoteHittable(key, n)
        notesHit == Len(SelectSeq(s.notes, hittable))
        updatedNotes ==
            [i \in 1..Len(s.notes) |-> updateNote(key, s.notes[i])]
        newConsecutiveHits ==
            IF notesHit > 0 THEN s.consecutiveHits + 1 ELSE s.consecutiveHits
    IN  [s EXCEPT
            !.notes = updatedNotes,
            !.score = calculateScore(s, notesHit),
            !.shouldPlayRandomNote = (notesHit = 0),
            !.consecutiveHits = newConsecutiveHits,
            !.multiplier = IF notesHit > 0
                           THEN calculateMultiplier(newConsecutiveHits, s.multiplier)
                           ELSE MultUnit]

KeyPressApply(key, s) ==
    LET hittable(n) == isNoteHittable(key, n)
        notesHit == Len(SelectSeq(s.notes, hittable))
        updatedNotes ==
            [i \in 1..Len(s.notes) |-> updateNote(key, s.notes[i])]
        newConsecutiveHits == IF notesHit > 0 THEN s.consecutiveHits + 1 ELSE 0
    IN  [s EXCEPT
            !.notes = updatedNotes,
            !.score = calculateScore(s, notesHit),
            !.shouldPlayRandomNote = (notesHit = 0),
            !.consecutiveHits = newConsecutiveHits,
            !.multiplier = IF notesHit > 0
                           THEN calculateMultiplier(newConsecutiveHits, s.multiplier)
                           ELSE MultUnit]

\* ------------------------------------------------------------------------
\* Tick
\* ------------------------------------------------------------------------
\* isMissedNote that forgets the hit flag
isMissedNote_IgnoreHit(note) == note.y > HIT_LINE_Y * YUnit

isMissedNote(note) == note.y > HIT_LINE_Y * YUnit /\ ~note.hit

\* updateNotePosition that moves a note up the lane
updateNotePosition_Up(note) == [note EXCEPT !.y = note.y - NOTE_VELOCITY]

updateNotePosition(note) == [note EXCEPT !.y = note.y + NOTE_VELOCITY]

\* isNoteInPlayArea that keeps a note one tick longer
isNoteInPlayArea_Late(note) ==
    note.y <= HIT_LINE_Y * YUnit + 2 * NOTE_VELOCITY

\* isNoteInPlayArea that ends at the hit line
isNoteInPlayArea_AtLine(note) == note.y <= HIT_LINE_Y * YUnit

isNoteInPlayArea(note) == note.y <= HIT_LINE_Y * YUnit + NOTE_VELOCITY

\* updateGameStats that keeps the multiplier when notes are missed
updateGameStats_KeepMultiplier(s, missedCount) ==
    [consecutiveHits |-> IF missedCount > 0 THEN 0 ELSE s.consecutiveHits,
     multiplier |-> s.multiplier,
     missedNotes |-> s.missedNotes + missedCount]

\* updateGameStats that counts a Tick with misses as one miss
updateGameStats_OnePerTick(s, missedCount) ==
    [consecutiveHits |-> IF missedCount > 0 THEN 0 ELSE s.consecutiveHits,
     multiplier |-> IF missedCount > 0 THEN MultUnit ELSE s.multiplier,
     missedNotes |-> s.missedNotes + (IF missedCount > 0 THEN 1 ELSE 0)]

updateGameStats(s, missedCount) ==
    [consecutiveHits |-> IF missedCount > 0 THEN 0 ELSE s.consecutiveHits,
     multiplier |-> IF missedCount > 0 THEN MultUnit ELSE s.multiplier,
     missedNotes |-> s.missedNotes + missedCount]

TickApply(s) ==
    LET missedNotesCount == Len(SelectSeq(s.notes, isMissedNote))
        moved == [i \in 1..Len(s.notes) |-> updateNotePosition(s.notes[i])]
        updatedNotes == SelectSeq(moved, isNoteInPlayArea)
        stats == updateGameStats(s, missedNotesCount)
    IN  [s EXCEPT
            !.notes = updatedNotes,
            !.consecutiveHits = stats.consecutiveHits,
            !.multiplier = stats.multiplier,
            !.missedNotes = stats.missedNotes,
            !.shouldPlayRandomNote = FALSE]

\* ------------------------------------------------------------------------
\* The charts the model plays.  A chart is the input of parseCSV; what the
\* reducer sees of it is the pitch field of every row and the times of the
\* arrivals.  rows: number of rows; exact: the chart has exactly rows rows
\* (otherwise at most); lanes: pitch fields of its rows; keys: the keys the
\* player uses; starts: the start time of every row in milliseconds, in
\* ascending order, or <<>> for a chart that leaves the times open and
\* gives the spacing of the arrivals instead: solo: the leading rows that
\* arrive on an empty board; poly: notes in flight at once after them; gap:
\* a row arrives at most gap ticks after the row before it while that one
\* is still on the board.  exactSum: <<0>> when the exact sum of the score
\* is followed along the run.
\* ------------------------------------------------------------------------
LongChart ==
    [rows |-> LongRows, exact |-> TRUE, lanes |-> {<<"6", "0">>},
     keys |-> {"KeyH", "KeyJ"}, starts |-> <<>>, solo |-> 9, poly |-> 3,
     gap |-> 0, exactSum |-> <<>>]

ShortChart ==
    [rows |-> ShortRows, exact |-> FALSE,
     lanes |-> {<<"6", "0">>, <<"6", "1">>},
     keys |-> Keys, starts |-> <<>>, solo |-> 0, poly |-> 3, gap |-> 1,
     exactSum |-> <<>>]

\* one note at a time on one lane, the exact sum of the score followed
ScoreChart ==
    [rows |-> ScoreRows, exact |-> TRUE, lanes |-> {<<"6", "0">>},
     keys |-> {"KeyH"}, starts |-> <<>>, solo |-> ScoreRows, poly |-> 1,
     gap |-> 0, exactSum |-> <<0>>]

\* start times of the timed charts: before the fall time (0, 500), at it
\* (1800), and after it on and off the tick grid
StartTimes == {0, 500, 1800, 1804, 1808, 1816, 2000}

TimedStarts ==
    {s \in [1..TimedRows -> StartTimes] :
        \A i \in 1..TimedRows, j \in 1..TimedRows : i <= j => s[i] <= s[j]}

\* a chart that gives its start times; a row's pitch field may be a note
\* name instead of a number
TimedChart(starts) ==
    [rows |-> Len(starts), exact |-> TRUE,
     lanes |-> {<<"6", "0">>, <<"C", "4">>},
     keys |-> {"KeyH", "KeyJ"}, starts |-> starts, solo |-> 0,
     poly |-> Len(starts) + 1, gap |-> NOTE_FALL_TIME, exactSum |-> <<>>]

\* ------------------------------------------------------------------------
\* State of the running game
\* ------------------------------------------------------------------------
VARIABLES
    state,      \* accumulator of scan(reduceState, initialState)
    prev,       \* the accumulator before the last action
    act,        \* the last action applied
    index,      \* rows of the chart delivered so far
    ended,      \* notes$ has completed: the game-end timer is running
    endTimer,   \* ticks since notes$ completed
    leftUnhit,  \* notes that left the list with hit = false
    run,        \* combo and multiplier after each press of the unbroken run
    chart,      \* the chart being played
    clock,      \* ticks of tick$ so far, counted for charts with start times
    latest,     \* steps of the values withLatestFrom holds of the two
                \* random streams (0: none yet)
    out,        \* what the subscriber did for the latest state of scan
    exactSum,   \* <<sum>> of notesHit * multiplier * SCORE_INCREMENT over
                \* the presses so far, times MultUnit; <<>> when not
                \* followed or after a press that hit nothing
    marked,     \* notes a KeyPress has marked hit so far
    svg         \* ids of the note elements on the canvas

vars ==
    <<state, prev, act, index, ended, endTimer, leftUnhit, run, chart, clock,
      latest, out, exactSum, marked, svg>>

\* a game-end timer of NOTE_FALL_TIME alone
GameEndTicksMin_NoPadding == NOTE_FALL_TIME \div TICK_RATE_MS

\* ticks that fit in NOTE_FALL_TIME + 2000 ms: 237 whole ticks, and a 238th
\* when the timer was armed just after a tick
GameEndTicksMin == (NOTE_FALL_TIME + GAME_END_PADDING) \div TICK_RATE_MS

GameEndTicksMax == GameEndTicksMin + 1

RunEntry(s) == [hits |-> s.consecutiveHits, mult |-> s.multiplier]

\* the last COMBO_STEP + 1 entries of a run
RunWindow(r) ==
    IF Len(r) <= COMBO_STEP + 1 THEN r
    ELSE SubSeq(r, Len(r) - COMBO_STEP, Len(r))

\* ------------------------------------------------------------------------
\* The subscriber of state$ (src/src/main.ts)
\* ------------------------------------------------------------------------
\* nothing reached the subscriber
Quiet == [emitted |-> FALSE, hits |-> {}, filler |-> <<>>, gameover |-> FALSE]

\* playHitNote: one play command for every note of s with hit = true
playHitNote(s) == {s.notes[i].id : i \in {j \in 1..Len(s.notes) : s.notes[j].hit}}

\* playRandomNote: the filler command, with the steps of its two values
playRandomNote(pitch, duration) == [pitch |-> pitch, duration |-> duration]

\* the text Math.round(s.score) that render writes to scoreText
scoreText(s) == MathRound(s.score, 1)

\* render, of the note elements: the element of a note past the hit line
\* is taken off the canvas if it is there; a note up to the hit line has
\* its element moved, or made if there is none
render(elems, s) ==
    LET past == {i \in 1..Len(s.notes) : s.notes[i].y > HIT_LINE_Y * YUnit}
    IN  (elems \ {s.notes[i].id : i \in past})
            \cup {s.notes[i].id : i \in (1..Len(s.notes)) \ past}

\* withLatestFrom and the callback: a state passes once both random streams
\* have emitted; it is rendered, its hit notes are played, the filler is
\* played when the flag is up, and gameEnd shows the game-over banner
subscriber(s, l) ==
    IF l.pitch = 0 \/ l.duration = 0
    THEN Quiet
    ELSE [emitted |-> TRUE,
          hits |-> playHitNote(s),
          filler |-> IF s.shouldPlayRandomNote
                     THEN <<playRandomNote(l.pitch, l.duration)>>
                     ELSE <<>>,
          gameover |-> s.gameEnd]

\* the state at the subscription; a chart that leaves the times open is
\* entered one period later, when the first value of either random stream
\* is in, and the steps of the later values are not followed
InitOf(c) ==
    /\ chart = c
    /\ state = initialState
    /\ prev = initialState
    /\ act = [type |-> "none"]
    /\ index = 0
    /\ ended \in (IF c.exact THEN {FALSE} ELSE BOOLEAN)
    /\ endTimer = 0
    /\ leftUnhit = 0
    /\ run = <<RunEntry(initialState)>>
    /\ clock = 0
    /\ latest = IF c.starts = <<>>
                THEN [pitch |-> 1, duration |-> 1]
                ELSE [pitch |-> 0, duration |-> 0]
    /\ out = Quiet
    /\ exactSum = c.exactSum
    /\ marked = 0
    /\ svg = {}

reduceState(s, action) ==
    CASE action.type = "Tick" -> TickApply(s)
      [] action.type = "KeyPress" -> KeyPressApply(action.key, s)
      [] action.type = "AddNotes" -> AddNotesApply(action.note, s)
      [] action.type = "PlayRandomNote" -> PlayRandomNoteApply(s)

\* a subscription that is never torn down
Step_NoUnsubscribe(action) ==
    /\ state' = reduceState(state, action)
    /\ prev' = state
    /\ act' = action
    /\ out' = subscriber(state', latest)
    /\ svg' = IF out'.emitted THEN render(svg, state') ELSE svg

\* one step of scan and the subscriber's callback on its output; the
\* callback tears the subscription down once it sees gameEnd
Step(action) ==
    /\ ~state.gameEnd
    /\ state' = reduceState(state, action)
    /\ prev' = state
    /\ act' = action
    /\ out' = subscriber(state', latest)
    /\ svg' = IF out'.emitted THEN render(svg, state') ELSE svg

\* notes of s that are no longer in t and had not been hit
GoneUnhit(s, t) ==
    {i \in 1..Len(s.notes) :
        /\ ~s.notes[i].hit
        /\ \A j \in 1..Len(t.notes) : t.notes[j].id # s.notes[i].id}

\* notes whose hit flag went from false to true between s and t
NewlyHit(s, t) ==
    {i \in 1..Len(s.notes) :
        /\ i <= Len(t.notes)
        /\ ~s.notes[i].hit
        /\ t.notes[i].hit}

\* the chart gives the start times of its rows
Timed == chart.starts # <<>>

Tick ==
    /\ ~(ended /\ endTimer >= GameEndTicksMax)
    /\ Step([type |-> "Tick"])
    /\ endTimer' = IF ended THEN endTimer + 1 ELSE endTimer
    /\ leftUnhit' = leftUnhit + Cardinality(GoneUnhit(state, state'))
    /\ run' = IF state'.missedNotes > state.missedNotes
              THEN <<RunEntry(state')>>
              ELSE run
    /\ clock' = IF Timed THEN clock + 1 ELSE clock
    /\ UNCHANGED <<index, ended, chart, latest, exactSum, marked>>

KeyPress ==
    \E key \in chart.keys :
        /\ Step([type |-> "KeyPress", key |-> key])
        /\ run' = IF NewlyHit(state, state') # {}
                  THEN RunWindow(Append(run, RunEntry(state')))
                  ELSE <<RunEntry(state')>>
        /\ exactSum' =
              IF exactSum = <<>> \/ NewlyHit(state, state') = {}
              THEN <<>>
              ELSE <<exactSum[1] + Cardinality(NewlyHit(state, state'))
                                     * state.multiplier * SCORE_INCREMENT>>
        /\ marked' = marked + Cardinality(NewlyHit(state, state'))
        /\ UNCHANGED <<index, ended, endTimer, leftUnhit, chart, clock, latest>>

PlayRandomNote ==
    /\ Step([type |-> "PlayRandomNote"])
    /\ UNCHANGED <<index, ended, endTimer, leftUnhit, run, chart, clock,
                   latest, exactSum, marked>>

AddNotes ==
    \E pitch \in chart.lanes, last \in BOOLEAN :
        /\ ~ended
        /\ index < chart.rows
        /\ Len(state.notes) < (IF index < chart.solo THEN 1 ELSE chart.poly)
        /\ state.notes # <<>> =>
              state.notes[Len(state.notes)].y <= chart.gap * NOTE_VELOCITY
        /\ last = TRUE => (~chart.exact \/ index + 1 = chart.rows)
        /\ last = FALSE => index + 1 < chart.rows
        /\ Step([type |-> "AddNotes", note |-> csvLineToNote(pitch, index)])
        /\ index' = index + 1
        /\ ended' = last
        /\ UNCHANGED <<endTimer, leftUnhit, run, chart, clock, latest,
                       exactSum, marked>>

GameEnd ==
    /\ ended
    /\ endTimer >= GameEndTicksMin
    /\ Step([type |-> "AddNotes", note |-> gameEndNote])
    /\ UNCHANGED <<index, ended, endTimer, leftUnhit, run, chart, clock,
                   latest, exactSum, marked>>

Next == Tick \/ KeyPress \/ PlayRandomNote \/ AddNotes \/ GameEnd

\* a short chart on two lanes, played with all four keys
Init == InitOf(ShortChart)

Spec == Init /\ [][Next]_vars

\* a long chart on one lane, long enough for a combo of more than ten
InitLong == InitOf(LongChart)

SpecLong == InitLong /\ [][Next]_vars

\* one note at a time, long enough for three presses at multiplier 1.2
InitScore == InitOf(ScoreChart)

SpecScore == InitScore /\ [][Next]_vars

\* the short charts with every timer firing in the end: tick$ is an
\* interval that fires every TICK_RATE_MS, every row of a finite chart is
\* behind a delay that runs out, and so is the sentinel
Fairness == WF_vars(Tick) /\ WF_vars(AddNotes) /\ WF_vars(GameEnd)

SpecFair == Init /\ [][Next]_vars /\ Fairness

\* ------------------------------------------------------------------------
\* The timers of a chart with start times.  Every interval(TICK_RATE_MS) is
\* a timer of its own; the timers are armed in the order withLatestFrom's
\* randomPitch$, withLatestFrom's randomDuration$, tick$, and their
\* callbacks run in that order in every period.  Key presses and note
\* arrivals fall anywhere between them, and so does the output of zip,
\* whose own two timers are not followed.  clock ticks have run: the time is
\* between TICK_RATE_MS * clock and TICK_RATE_MS * (clock + 1), and it is
\* the latter once a callback of the next period has run.
\* ------------------------------------------------------------------------
\* a row still to come is to be emitted before time t
RowDueBefore(t) ==
    \E r \in (index + 1)..chart.rows : emitTime(chart.starts[r]) < t

\* the interval callback behind withLatestFrom's randomPitch$
PitchTimer ==
    /\ ~state.gameEnd
    /\ latest.pitch = clock
    /\ ~RowDueBefore(TICK_RATE_MS * (clock + 1))
    /\ latest' = [latest EXCEPT !.pitch = @ + 1]
    /\ UNCHANGED <<state, prev, act, index, ended, endTimer, leftUnhit, run,
                   chart, clock, out, exactSum, marked, svg>>

\* the interval callback behind withLatestFrom's randomDuration$
DurationTimer ==
    /\ ~state.gameEnd
    /\ latest.pitch = clock + 1
    /\ latest.duration = clock
    /\ latest' = [latest EXCEPT !.duration = @ + 1]
    /\ UNCHANGED <<state, prev, act, index, ended, endTimer, leftUnhit, run,
                   chart, clock, out, exactSum, marked, svg>>

\* the interval callback of tick$
TimedTick ==
    /\ latest.pitch = clock + 1
    /\ latest.duration = clock + 1
    /\ Tick

\* a row arrives at its emit time
TimedAddNotes ==
    /\ index < chart.rows
    /\ emitTime(chart.starts[index + 1]) <= TICK_RATE_MS * (clock + 1)
    /\ AddNotes

NextTimed ==
    \/ PitchTimer
    \/ DurationTimer
    \/ TimedTick
    \/ KeyPress
    \/ PlayRandomNote
    \/ TimedAddNotes
    \/ GameEnd

\* every chart of TimedRows rows with start times of StartTimes
InitTimed == \E starts \in TimedStarts : InitOf(TimedChart(starts))

SpecTimed == InitTimed /\ [][NextTimed]_vars


\* ------------------------------------------------------------------------
\* Vocabulary of the properties
\* ------------------------------------------------------------------------
HitLine == HIT_LINE_Y * YUnit

\* a note the key can hit: its lane, inside the window, not yet hit
Hittable(key, n) ==
    /\ n.column = KEY_BINDINGS[key]
    /\ n.y >= HitLine - HIT_WINDOW * YUnit
    /\ n.y <= HitLine + HIT_WINDOW * YUnit
    /\ n.hit = FALSE

HittableBy(key, s) == {i \in 1..Len(s.notes) : Hittable(key, s.notes[i])}

\* a note a Tick counts as missed: beyond the hit line and not hit
PastLineUnhit(s) ==
    {i \in 1..Len(s.notes) : s.notes[i].y > HitLine /\ s.notes[i].hit = FALSE}

Ids(s) == {s.notes[i].id : i \in 1..Len(s.notes)}

\* ------------------------------------------------------------------------
\* C1: in every state reachable from initialState by Tick, AddNotes,
\* KeyPress and PlayRandomNote actions, score >= 0.
\* ------------------------------------------------------------------------
C1_ScoreNonNegative == state.score >= 0

\* a press that hits nothing while the score is back at 0, after the only
\* note delivered so far was hit and has left the board
C1_Witness ==
    /\ act.type = "KeyPress"
    /\ HittableBy(act.key, prev) = {}
    /\ index = 1
    /\ leftUnhit = 0
    /\ prev.notes = <<>>
    /\ prev.score = 0
    /\ state.score = 0

\* ------------------------------------------------------------------------
\* C2: a Tick that counts at least one missed note (y > HIT_LINE_Y, not
\* hit) yields multiplier = 1.0 and consecutiveHits = 0 whatever they were,
\* and missedNotes grows by exactly that count; a Tick that counts none
\* leaves multiplier, consecutiveHits and missedNotes unchanged.
\* ------------------------------------------------------------------------
C2_TickMissLaw ==
    act.type = "Tick" =>
        LET missedCount == Cardinality(PastLineUnhit(prev))
        IN  IF missedCount > 0
            THEN /\ state.multiplier = MultUnit
                 /\ state.consecutiveHits = 0
                 /\ state.missedNotes = prev.missedNotes + missedCount
            ELSE /\ state.multiplier = prev.multiplier
                 /\ state.consecutiveHits = prev.consecutiveHits
                 /\ state.missedNotes = prev.missedNotes

\* a Tick that counts two missed notes at once and resets a raised multiplier
C2_Witness ==
    /\ act.type = "Tick"
    /\ Cardinality(PastLineUnhit(prev)) = 2
    /\ prev.multiplier > MultUnit
    /\ prev.consecutiveHits >= COMBO_STEP
    /\ state.multiplier = MultUnit

\* ------------------------------------------------------------------------
\* C3: a KeyPress with no note hittable by its key yields
\* score = max(0, score - SCORE_DECREMENT), consecutiveHits = 0,
\* multiplier = 1.0 and shouldPlayRandomNote = true, and leaves every note
\* unchanged.
\* ------------------------------------------------------------------------
C3_ZeroHitPress ==
    (act.type = "KeyPress" /\ HittableBy(act.key, prev) = {}) =>
        /\ state.score = (IF prev.score - SCORE_DECREMENT > 0
                          THEN prev.score - SCORE_DECREMENT ELSE 0)
        /\ state.consecutiveHits = 0
        /\ state.multiplier = MultUnit
        /\ state.shouldPlayRandomNote = TRUE
        /\ state.notes = prev.notes

\* a press that hits nothing although a note of its lane is on the board,
\* breaking a combo and costing a point
C3_Witness ==
    /\ act.type = "KeyPress"
    /\ HittableBy(act.key, prev) = {}
    /\ \E i \in 1..Len(prev.notes) :
          prev.notes[i].column = KEY_BINDINGS[act.key]
    /\ prev.score > 0
    /\ prev.consecutiveHits > 0
    /\ state.score = prev.score - SCORE_DECREMENT


\* ------------------------------------------------------------------------
\* C4: over any run of exactly 10 successful KeyPress actions with no
\* zero-hit KeyPress and no miss-counting Tick in between (other Ticks,
\* AddNotes and PlayRandomNote may be interleaved), the multiplier grows by
\* exactly 0.2 in total, in one single increment, made by the press that
\* brings consecutiveHits to a multiple of 10.  run holds the state before
\* the first of the last 10 successful presses of the unbroken run and the
\* state after each of them.
\* ------------------------------------------------------------------------
C4_RaisingPresses ==
    {i \in 2..Len(run) : run[i].mult # run[i - 1].mult}

C4_ComboIncrement ==
    /\ run[Len(run)].hits = state.consecutiveHits
    /\ run[Len(run)].mult = state.multiplier
    /\ \A i \in 2..Len(run) : run[i].hits = run[i - 1].hits + 1
    /\ Len(run) = COMBO_STEP + 1 =>
          /\ 5 * (run[Len(run)].mult - run[1].mult) = MultUnit
          /\ Cardinality(C4_RaisingPresses) = 1
          /\ \A i \in C4_RaisingPresses :
                /\ run[i].hits % 10 = 0
                /\ 5 * (run[i].mult - run[i - 1].mult) = MultUnit

\* ten successful presses in a row that started in the middle of a combo
\* (after its first hit): the increment is made by the ninth of them
C4_Witness ==
    /\ act.type = "KeyPress"
    /\ Len(run) = COMBO_STEP + 1
    /\ run[1].hits = 1
    /\ state.consecutiveHits = 11
    /\ state.multiplier > MultUnit


C6_SuccessfulPress ==
    act.type = "KeyPress" =>
        LET notesHit == Cardinality(HittableBy(act.key, prev))
            x == prev.score * MultUnit
                   + notesHit * prev.multiplier * SCORE_INCREMENT
        IN  /\ notesHit > 0 =>
                  /\ 2 * MultUnit * state.score - MultUnit <= 2 * x
                  /\ 2 * x < 2 * MultUnit * state.score + MultUnit
                  /\ state.consecutiveHits = prev.consecutiveHits + 1
                  /\ state.shouldPlayRandomNote = FALSE
            /\ ( /\ notesHit = 1
                 /\ prev.score = 0
                 /\ prev.consecutiveHits = 0
                 /\ prev.multiplier = MultUnit ) =>
                  /\ state.score = 1
                  /\ state.consecutiveHits = 1
                  /\ state.multiplier = MultUnit

\* the tenth press of a combo hits three notes at once: it raises the
\* multiplier to 1.2 and scores 3 * 1.0, not round(3 * 1.2) = 4
C6_Witness ==
    /\ act.type = "KeyPress"
    /\ Cardinality(HittableBy(act.key, prev)) = 3
    /\ prev.multiplier = MultUnit
    /\ state.multiplier > MultUnit
    /\ state.score = prev.score + 3


\* ------------------------------------------------------------------------
\* C7: for every note id, hit changes from false to true at most once and
\* never returns to false, and a note whose hit is already true is never
\* counted by a later KeyPress: it adds nothing to score or consecutiveHits
\* a second time.  Ids are unique and an id that has left the list never
\* comes back, so the step-wise statement covers the whole life of a note.
\* ------------------------------------------------------------------------
C7_HitOnce ==
    /\ \A i, j \in 1..Len(state.notes) :
          i # j => state.notes[i].id # state.notes[j].id
    /\ \A i \in 1..Len(state.notes) :
          state.notes[i].id \notin Ids(prev) =>
              /\ act.type = "AddNotes"
              /\ i = Len(state.notes)
              /\ state.notes[i].id = ToString(index - 1)
              /\ state.notes[i].hit = FALSE
    /\ \A i \in 1..Len(prev.notes), j \in 1..Len(state.notes) :
          (prev.notes[i].id = state.notes[j].id /\ prev.notes[i].hit)
              => state.notes[j].hit
    /\ act.type = "KeyPress" =>
          LET fresh == Cardinality(HittableBy(act.key, prev))
              x == prev.score * MultUnit
                     + fresh * prev.multiplier * SCORE_INCREMENT
          IN  /\ 2 * MultUnit * state.score - MultUnit <= 2 * x
              /\ state.consecutiveHits
                    <= (IF fresh > 0 THEN prev.consecutiveHits + 1 ELSE 0)

\* a second press on the lane of a note that was just hit and is still on
\* the board: it hits nothing and costs a point
C7_Witness ==
    /\ act.type = "KeyPress"
    /\ \E i \in 1..Len(prev.notes) :
          /\ prev.notes[i].hit
          /\ prev.notes[i].column = KEY_BINDINGS[act.key]
          /\ state.notes[i] = prev.notes[i]
    /\ prev.consecutiveHits = 1
    /\ state.consecutiveHits = 0
    /\ state.score = prev.score - SCORE_DECREMENT

\* ------------------------------------------------------------------------
\* C8: each missed note is counted separately and only once: every note
\* that leaves the list without having been hit adds exactly 1 to
\* missedNotes, in the Tick that removes it, and no note is counted in two
\* Ticks (a counted note is gone after that Tick; no other action counts
\* or removes a note).
\* ------------------------------------------------------------------------
C8_MissedOnce ==
    /\ state.missedNotes = leftUnhit
    /\ act.type = "Tick" =>
          /\ \A i \in PastLineUnhit(prev) : prev.notes[i].id \notin Ids(state)
          /\ state.missedNotes
                = prev.missedNotes + Cardinality(GoneUnhit(prev, state))
    /\ act.type # "Tick" =>
          /\ state.missedNotes = prev.missedNotes
          /\ Ids(prev) \subseteq Ids(state)

\* one Tick removes three notes: two unhit ones, each counted, and a hit
\* one, not counted
C8_Witness ==
    /\ act.type = "Tick"
    /\ Len(prev.notes) = 3
    /\ state.notes = <<>>
    /\ Cardinality(PastLineUnhit(prev)) = 2
    /\ state.missedNotes = prev.missedNotes + 2
    /\ leftUnhit = 2

\* ------------------------------------------------------------------------
\* C9: a note marked hit by a KeyPress has its y set to
\* HIT_LINE_Y + NOTE_VELOCITY, stays in the list through every following
\* non-Tick action, and is removed by the very next Tick.
\* ------------------------------------------------------------------------
C9_HitNoteLifetime ==
    /\ \A i \in 1..Len(state.notes) :
          state.notes[i].hit => state.notes[i].y = HitLine + NOTE_VELOCITY
    /\ act.type \in {"KeyPress", "AddNotes", "PlayRandomNote"} =>
          \A i \in 1..Len(prev.notes) :
              prev.notes[i].hit =>
                  /\ i <= Len(state.notes)
                  /\ state.notes[i] = prev.notes[i]
    /\ act.type = "Tick" =>
          \A i \in 1..Len(prev.notes) :
              prev.notes[i].hit => prev.notes[i].id \notin Ids(state)

\* a Tick removes a hit note and keeps the unhit note next to it
C9_Witness ==
    /\ act.type = "Tick"
    /\ \E i \in 1..Len(prev.notes) :
          /\ prev.notes[i].hit
          /\ prev.notes[i].y = HitLine + NOTE_VELOCITY
          /\ prev.notes[i].id \notin Ids(state)
    /\ state.notes # <<>>

\* ------------------------------------------------------------------------
\* C10: AddNotes with the terminal sentinel sets gameEnd = true and leaves
\* notes, score, missedNotes, multiplier, consecutiveHits and
\* shouldPlayRandomNote unchanged (the sentinel is not put in the list);
\* with any other note it appends that note as the last element of notes
\* and leaves every other field and every existing note unchanged.
\* ------------------------------------------------------------------------
C10_AddNotesFrame ==
    act.type = "AddNotes" =>
        /\ state.score = prev.score
        /\ state.missedNotes = prev.missedNotes
        /\ state.multiplier = prev.multiplier
        /\ state.consecutiveHits = prev.consecutiveHits
        /\ state.shouldPlayRandomNote = prev.shouldPlayRandomNote
        /\ IF act.note.id = "gameEndNote"
           THEN /\ state.gameEnd = TRUE
                /\ state.notes = prev.notes
           ELSE /\ state.gameEnd = prev.gameEnd
                /\ Len(state.notes) = Len(prev.notes) + 1
                /\ state.notes[Len(state.notes)] = act.note
                /\ \A i \in 1..Len(prev.notes) : state.notes[i] = prev.notes[i]

\* the sentinel arrives right after a press that hit nothing, in a game
\* with points scored and notes missed
C10_Witness ==
    /\ act.type = "AddNotes"
    /\ act.note.id = "gameEndNote"
    /\ state.gameEnd
    /\ prev.shouldPlayRandomNote
    /\ prev.score > 0
    /\ prev.missedNotes > 0
    /\ index = ShortRows

\* ------------------------------------------------------------------------
\* C11.  The stream of actions ends exactly when gameEnd becomes true.
\* While gameEnd is false the subscription is alive: a key press (and the
\* output of zip) is taken by the reducer whenever it comes, and the
\* game-over banner is not shown.  A state with gameEnd = true was produced
\* from a state with gameEnd = false by the sentinel, it was rendered with
\* the banner, and after it no timer callback, key press or note arrival
\* runs any more: nothing is applied to it and nothing is rendered.
\* ------------------------------------------------------------------------
C11_StreamEndsAtGameEnd ==
    /\ ~state.gameEnd =>
          /\ ENABLED KeyPress
          /\ ENABLED PlayRandomNote
          /\ ~out.gameover
    /\ state.gameEnd =>
          /\ ~prev.gameEnd
          /\ act.type = "AddNotes"
          /\ act.note.id = "gameEndNote"
          /\ out.emitted
          /\ out.gameover
          /\ ~ENABLED NextTimed

\* the game has ended after a note was hit
C11_Witness ==
    /\ state.gameEnd
    /\ out.gameover
    /\ state.score = 1
    /\ index = 1

\* ------------------------------------------------------------------------
\* C12.  Exactly one sentinel reaches the reducer, after every chart note
\* and not earlier than NOTE_FALL_TIME + 2000 ms after the last of them.
\* gameEnd is set by the sentinel and by nothing else.  The sentinel is
\* applied when all rows of the chart have been delivered (no AddNotes of a
\* chart note can follow) and at least as many ticks have run since the last
\* of them as fit in NOTE_FALL_TIME + 2000 ms, and no second sentinel can
\* follow it.  Once that time has certainly passed the sentinel is the next
\* timer to fire: it is enabled and no tick comes before it.  In a chart
\* without rows notes is empty throughout, so it is empty when gameEnd
\* becomes true.
\* ------------------------------------------------------------------------
C12_OneSentinelAfterAllNotes ==
    LET sentinel == act.type = "AddNotes" /\ act.note.id = "gameEndNote"
        padTicks == (NOTE_FALL_TIME + 2000) \div TICK_RATE_MS
    IN  /\ state.gameEnd <=> sentinel
        /\ sentinel =>
              /\ ~prev.gameEnd
              /\ ended
              /\ chart.exact => index = chart.rows
              /\ endTimer >= padTicks
              /\ ~ENABLED AddNotes
              /\ ~ENABLED GameEnd
        /\ (ended /\ endTimer > padTicks /\ ~state.gameEnd) =>
              /\ ENABLED GameEnd
              /\ ~ENABLED Tick
        /\ (ended /\ index = 0) => state.notes = <<>>

\* the chart without rows has ended
C12_Witness ==
    /\ state.gameEnd
    /\ index = 0
    /\ state.notes = <<>>
    /\ endTimer = (NOTE_FALL_TIME + 2000) \div TICK_RATE_MS

\* ------------------------------------------------------------------------
\* Time of a chart with start times
\* ------------------------------------------------------------------------
\* the time now may be t
AtTime(t) ==
    /\ TICK_RATE_MS * clock <= t
    /\ t <= TICK_RATE_MS * (clock + 1)
    /\ latest.pitch > clock => t = TICK_RATE_MS * (clock + 1)

\* the id of row r (rows are counted from 1, ids from 0)
RowId(r) == ToString(r - 1)

\* positions of the note of row r in the list of s
RowNote(s, r) == {i \in 1..Len(s.notes) : s.notes[i].id = RowId(r)}

\* row r enters at time t with y = 0: while it has not arrived the time is
\* not after t, once it has arrived the time is not before t
EntersAt(r, t) ==
    /\ index < r => TICK_RATE_MS * clock <= t
    /\ index >= r => t <= TICK_RATE_MS * (clock + 1)
    /\ (act.type = "AddNotes" /\ act.note.id = RowId(r)) => act.note.y = 0

\* at time t the note of row r is at the hit line: it has not left unhit
\* before t, while unhit it is within one tick's travel of the line and
\* every key of its lane can hit it, and a press of such a key does hit it
AtLineAt(r, t) ==
    /\ \A i \in RowNote(prev, r) :
          (act.type = "Tick" /\ ~prev.notes[i].hit /\ RowNote(state, r) = {})
              => TICK_RATE_MS * clock >= t
    /\ \A i \in RowNote(state, r) :
          (AtTime(t) /\ ~state.notes[i].hit) =>
              /\ state.notes[i].y >= HitLine - NOTE_VELOCITY
              /\ state.notes[i].y <= HitLine + NOTE_VELOCITY
              /\ \A key \in Keys :
                    KEY_BINDINGS[key] = state.notes[i].column
                        => Hittable(key, state.notes[i])
    /\ \A i \in RowNote(prev, r) :
          (/\ AtTime(t)
           /\ act.type = "KeyPress"
           /\ ~prev.notes[i].hit
           /\ KEY_BINDINGS[act.key] = prev.notes[i].column)
              => state.notes[i].hit

\* ------------------------------------------------------------------------
\* C13 as stated.  Every chart note enters the action stream at time
\* start - NOTE_FALL_TIME (at time 0 when that is negative) with y = 0, and
\* at time start it is at the hit line: within NOTE_VELOCITY of HIT_LINE_Y,
\* and a KeyPress on its lane hits it.
\* ------------------------------------------------------------------------
C13_AtLineAtStart ==
    Timed =>
        \A r \in 1..chart.rows :
            LET start == chart.starts[r]
                entry == IF start - NOTE_FALL_TIME < 0
                         THEN 0
                         ELSE start - NOTE_FALL_TIME
            IN  /\ EntersAt(r, entry)
                /\ AtLineAt(r, start)

\* ------------------------------------------------------------------------
\* C13, amended.  Every chart note enters the action stream at time
\* start - NOTE_FALL_TIME (at time 0 when that is negative) with y = 0, and
\* it is at the hit line NOTE_FALL_TIME later: at time start when
\* start >= NOTE_FALL_TIME, at time NOTE_FALL_TIME (after its start time)
\* when it entered at time 0.
\* ------------------------------------------------------------------------
C13_AtLineAfterFall ==
    Timed =>
        \A r \in 1..chart.rows :
            LET start == chart.starts[r]
                entry == IF start - NOTE_FALL_TIME < 0
                         THEN 0
                         ELSE start - NOTE_FALL_TIME
            IN  /\ EntersAt(r, entry)
                /\ AtLineAt(r, entry + NOTE_FALL_TIME)

\* a note that starts after the fall time is hit at its start time
C13_Witness ==
    /\ Timed
    /\ chart.starts[1] = 2000
    /\ AtTime(2000)
    /\ act.type = "KeyPress"
    /\ RowNote(prev, 1) = {1}
    /\ ~prev.notes[1].hit
    /\ state.notes[1].hit

\* ------------------------------------------------------------------------
\* C15.  The score is rounded only on read: after any sequence of actions
\* without a KeyPress that hits nothing, the displayed score is the integer
\* nearest to the exact sum, over the presses, of
\* notesHit * (multiplier before the press) * SCORE_INCREMENT.
\* ------------------------------------------------------------------------
C15_RoundedOnRead ==
    exactSum # <<>> =>
        scoreText(state) = (2 * exactSum[1] + MultUnit) \div (2 * MultUnit)

\* ------------------------------------------------------------------------
\* Vocabulary of the audio properties
\* ------------------------------------------------------------------------
\* ids of the notes whose hit flag turned true in the last step
TurnedHit ==
    {state.notes[i].id : i \in
        {j \in 1..Len(state.notes) :
            /\ state.notes[j].hit
            /\ \E k \in 1..Len(prev.notes) :
                  /\ prev.notes[k].id = state.notes[j].id
                  /\ ~prev.notes[k].hit}}

\* the last action was a KeyPress that hit nothing
ZeroHitPress == act.type = "KeyPress" /\ TurnedHit = {}

\* ------------------------------------------------------------------------
\* C16.  A play command for a user-played note is emitted only for the
\* state in which its hit flag turned true, so every hit note is played
\* exactly once: the notes played for a state are the notes that turned
\* hit in the step that produced it.
\* ------------------------------------------------------------------------
C16_PlayedWhenTurnedHit == out.hits = TurnedHit

\* ------------------------------------------------------------------------
\* C17.  shouldPlayRandomNote is a one-shot pulse: it is true exactly in
\* the states produced by a KeyPress that hit nothing, each such KeyPress
\* triggers exactly one filler play command, and no filler is played for a
\* state produced by a Tick, AddNotes or PlayRandomNote.
\* ------------------------------------------------------------------------
C17_FillerPulse ==
    /\ state.shouldPlayRandomNote <=> ZeroHitPress
    /\ ZeroHitPress => Len(out.filler) = 1
    /\ act.type \in {"Tick", "AddNotes", "PlayRandomNote"} => out.filler = <<>>

\* ------------------------------------------------------------------------
\* C18.  Every filler play command uses a paired pitch and duration: both
\* values come from the same step of the generator.
\* ------------------------------------------------------------------------
C18_FillerPaired ==
    \A i \in 1..Len(out.filler) :
        out.filler[i].pitch = out.filler[i].duration

\* ------------------------------------------------------------------------
\* C19.  A row with an unparseable numeric field produces no Note and ends
\* the loading: every note delivered to the reducer has a lane computed
\* from a number, and no row is delivered after a malformed one.
\* ------------------------------------------------------------------------
C19_NoNoteFromMalformedRow ==
    /\ \A i \in 1..Len(state.notes) :
          state.notes[i].column \in 0..(Len(COLORS) - 1)
    /\ (act.type = "AddNotes" /\ act.note.id # "gameEndNote") =>
          act.note.column \in 0..(Len(COLORS) - 1)

\* ------------------------------------------------------------------------
\* C20.  While a note is in the list its y never decreases from one state
\* to the next: a Tick raises it by NOTE_VELOCITY, a KeyPress that hits it
\* moves it to HIT_LINE_Y + NOTE_VELOCITY, which is not below where it was,
\* and AddNotes, PlayRandomNote and a KeyPress that does not hit it leave
\* it where it was.
\* ------------------------------------------------------------------------
C20_YNeverDecreases ==
    \A i \in 1..Len(prev.notes), j \in 1..Len(state.notes) :
        prev.notes[i].id = state.notes[j].id =>
            LET before == prev.notes[i]
                after == state.notes[j]
            IN  /\ after.y >= before.y
                /\ act.type = "Tick" => after.y = before.y + NOTE_VELOCITY
                /\ act.type = "KeyPress" =>
                      after.y = IF ~before.hit /\ after.hit
                                THEN HitLine + NOTE_VELOCITY
                                ELSE before.y
                /\ act.type \in {"AddNotes", "PlayRandomNote"} =>
                      after.y = before.y

\* a note already past the hit line is hit and moves on to the pinned y
C20_Witness ==
    /\ act.type = "KeyPress"
    /\ \E i \in 1..Len(prev.notes) :
          /\ ~prev.notes[i].hit
          /\ prev.notes[i].y > HitLine
          /\ state.notes[i].hit
          /\ state.notes[i].y > prev.notes[i].y

\* ------------------------------------------------------------------------
\* C21.  In every reachable state
\* multiplier = 1.0 + 0.2 * floor(consecutiveHits / 10); hence the
\* multiplier is never below 1.0, and it is 1.0 whenever consecutiveHits is
\* below 10.  The equation is stated five-fold, in whole numbers.
\* ------------------------------------------------------------------------
C21_MultiplierFromCombo ==
    /\ 5 * state.multiplier = MultUnit * (5 + state.consecutiveHits \div 10)
    /\ state.multiplier >= MultUnit
    /\ state.consecutiveHits < 10 => state.multiplier = MultUnit

\* the eleventh press of a combo: the multiplier stays at 1.2
C21_Witness ==
    /\ act.type = "KeyPress"
    /\ prev.consecutiveHits = 10
    /\ state.consecutiveHits = 11
    /\ 5 * state.multiplier = 6 * MultUnit

\* ------------------------------------------------------------------------
\* C22.  For every finite chart, with ticks firing every TICK_RATE_MS,
\* gameEnd eventually becomes true, and in the state where it becomes true
\* the note list is empty and every chart note has been resolved exactly
\* one way: missedNotes is the number of chart notes minus the number of
\* notes that were marked hit.
\* ------------------------------------------------------------------------
C22_EndsWithEveryNoteResolved ==
    /\ <>(state.gameEnd)
    /\ [](state.gameEnd =>
             /\ ~prev.gameEnd
             /\ state.notes = <<>>
             /\ state.missedNotes = index - marked)

\* the game ends on a chart of three notes, one hit and two missed
C22_Witness ==
    /\ state.gameEnd
    /\ ~prev.gameEnd
    /\ index = 3
    /\ marked = 1
    /\ state.missedNotes = 2

\* ------------------------------------------------------------------------
\* C23.  Hit and missed are mutually exclusive per note.  A Tick counts
\* exactly the notes that are past the hit line and not hit, so a note that
\* has been marked hit adds nothing to missedNotes; a hit note keeps its
\* flag while it is in the list.  Every note a Tick counts is gone from the
\* list after that Tick, and an id that has left never comes back, so no
\* later KeyPress finds it.  Over the whole run every delivered note is in
\* exactly one of three classes: marked hit, counted as missed, or still
\* on the board unhit.
\* ------------------------------------------------------------------------
C23_Unresolved(s) == {i \in 1..Len(s.notes) : s.notes[i].hit = FALSE}

C23_HitXorMissed ==
    /\ act.type = "Tick" =>
          /\ state.missedNotes - prev.missedNotes
                = Cardinality(PastLineUnhit(prev))
          /\ \A i \in PastLineUnhit(prev) : prev.notes[i].id \notin Ids(state)
    /\ \A i \in 1..Len(prev.notes), j \in 1..Len(state.notes) :
          (prev.notes[i].id = state.notes[j].id /\ prev.notes[i].hit)
              => state.notes[j].hit
    /\ \A j \in 1..Len(state.notes) :
          state.notes[j].id \notin Ids(prev)
              => state.notes[j].id = ToString(index - 1)
    /\ act.type = "KeyPress" =>
          Ids(state) = Ids(prev)
    /\ index = marked + state.missedNotes
                 + Cardinality(C23_Unresolved(state))

\* one Tick takes a hit note and an unhit note past the line off the board:
\* the first is not counted, the second is
C23_Witness ==
    /\ act.type = "Tick"
    /\ Len(prev.notes) = 2
    /\ \E i, j \in 1..2 :
          /\ prev.notes[i].hit
          /\ ~prev.notes[j].hit
          /\ prev.notes[j].y > HitLine
    /\ state.notes = <<>>
    /\ state.missedNotes = prev.missedNotes + 1
    /\ marked = 1
    /\ index = 2

\* ------------------------------------------------------------------------
\* C24.  In every reachable state every note has
\* y <= HIT_LINE_Y + NOTE_VELOCITY, and a Tick removes a note only if its y
\* before the Tick was strictly greater than HIT_LINE_Y.  Render takes the
\* element of a note with y > HIT_LINE_Y off the canvas and makes one only
\* for y <= HIT_LINE_Y, so no note leaves the state while its element is
\* on the canvas: every element on the canvas belongs to a note of the
\* state, one that is not past the hit line.
\* ------------------------------------------------------------------------
C24_NoElementOutlivesItsNote ==
    /\ \A i \in 1..Len(state.notes) :
          state.notes[i].y <= HitLine + NOTE_VELOCITY
    /\ \A i \in 1..Len(prev.notes) :
          prev.notes[i].id \notin Ids(state) =>
              /\ act.type = "Tick"
              /\ prev.notes[i].y > HitLine
    /\ \A id \in svg :
          \E i \in 1..Len(state.notes) :
              /\ state.notes[i].id = id
              /\ state.notes[i].y <= HitLine

\* a Tick takes a note that was past the hit line out of the state; its
\* element is off the canvas, the element of the note behind it is on
C24_Witness ==
    /\ act.type = "Tick"
    /\ Len(prev.notes) = 2
    /\ prev.notes[1].y > HitLine
    /\ prev.notes[1].id \notin Ids(state)
    /\ Len(state.notes) = 1
    /\ svg = Ids(state)
    /\ out.emitted

====
